---- MODULE Spec2Model ----
(***************************************************************************)
(* Model of the authentication and authorization core of the university   *)
(* API: the profile table, the JWT token pair, the bcrypt hashes, the     *)
(* guard pipeline (AtGuard, RtGuard, RolesGuard) and the AuthService       *)
(* operations signIn / signOut / refreshTokens, each request being an     *)
(* asynchronous handler whose awaits on the repository interleave with     *)
(* the other requests.                                                     *)
(***************************************************************************)
EXTENDS Integers, Sequences, FiniteSets, TLC

\* ------------------------------------------------------------------ bounds

\* Seconds the clock may advance (jsonwebtoken's iat/exp are whole seconds).
MaxTime == 1
\* Requests started over a whole run.
MaxOps == 3
\* JWT_ACCESS_TOKEN_EXPIRATION_TIME and JWT_REFRESH_TOKEN_EXPIRATION_TIME,
\* in seconds, scaled down to the model's clock.
AccessTtl == 1
RefreshTtl == 2
\* The longest courseIds body tried.
MaxCourseIds == 2

\* ------------------------------------------------------------ value spaces

Slots == {1, 2}
Ids == {1, 2}
\* Student / lecturer ids and course ids.
MemberIds == {1, 2}
CourseIds == {1, 2}
Emails == {"a@x.com", "b@x.com"}
Passwords == {"pw1", "pw2"}
\* The emails a sign-in is tried with: the registered ones and one no profile has.
SignInEmails == Emails \cup {"c@x.com"}

\* enum Role
Role == {"student", "faculty", "admin", "guest"}

\* TypeScript's null for a nullable column, and a present value.
Null == {}
Some(v) == {v}
The(o) == CHOOSE v \in o : TRUE

\* ---------------------------------------------------------------- tokens

\* A compact JWT is header.payload.signature; the payload JSON is
\* {"sub":..,"email":"..","role":"..","iat":..,"exp":..} and the signature is
\* a function of header, payload and secret: two signAsync calls with the same
\* claims, the same secret and the same second give the same string.
\* typ names the secret that signed the token.
MkToken(typ, sub, email, role, iat) ==
    [typ |-> typ, sub |-> sub, email |-> email, role |-> role, iat |-> iat]

\* No Authorization header, a bearer that is not a JWT, and a JWT signed with
\* a secret that is neither the access nor the refresh secret.
NoToken == MkToken("none", 0, "", "", 0)
Malformed == MkToken("malformed", 0, "", "", 0)
Forged == MkToken("forged", 1, "a@x.com", "admin", 0)

\* JWT_ACCESS_TOKEN_SECRET and JWT_REFRESH_TOKEN_SECRET of the configuration.
AccessSecret == "at"
RefreshSecret == "rt"

Ttl(typ) == IF typ = AccessSecret THEN AccessTtl ELSE RefreshTtl
Exp(t) == t.iat + Ttl(t.typ)

signAsync(payload, secret, clock) ==
    MkToken(secret, payload.sub, payload.email, payload.role, clock)

\* Mutant of JwtVerify: a token signed with either secret of the
\* configuration verifies.
JwtVerify_AnySecret(t, secret, clock) ==
    t.typ \in {AccessSecret, RefreshSecret} /\ clock < Exp(t)

\* passport-jwt / jsonwebtoken verify: signature under the given secret, and
\* not expired (expired when clock >= exp).
JwtVerify(t, secret, clock) == t.typ = secret /\ clock < Exp(t)

\* AuthService.getTokens
getTokens(userId, email, role, clock) ==
    LET payload == [sub |-> userId, email |-> email, role |-> role]
    IN  [accessToken |-> signAsync(payload, AccessSecret, clock),
         refreshToken |-> signAsync(payload, RefreshSecret, clock)]

\* ---------------------------------------------------------------- bcrypt

\* bcrypt uses only the first 72 bytes of its input.
BcryptMaxBytes == 72
\* base64url of {"alg":"HS256","typ":"JWT"}, the header of every token.
JwtHeaderLen == 36
\* Whole payload bytes among the input bytes bcrypt reads: the header, the dot,
\* then base64url characters of 6 bits each.
JwtPayloadBytesHashed == ((BcryptMaxBytes - JwtHeaderLen - 1) * 6) \div 8

Digits(n) == IF n < 10 THEN 1 ELSE 2
\* Offsets of the end of each claim's value in the payload JSON.
SubEnd(t) == Len("{\"sub\":") + Digits(t.sub)
EmailEnd(t) == SubEnd(t) + Len(",\"email\":\"") + Len(t.email)
RoleEnd(t) == EmailEnd(t) + Len("\",\"role\":\"") + Len(t.role)
IatEnd(t) == RoleEnd(t) + Len("\",\"iat\":") + 10

\* What bcrypt reads of a token: the claims that lie within the first 72
\* bytes (a claim cut by the limit is read for the identities of this model
\* never: their emails end exactly at the limit).
JwtFirst72(t) ==
    [sub |-> IF SubEnd(t) <= JwtPayloadBytesHashed THEN t.sub ELSE 0,
     email |-> IF EmailEnd(t) <= JwtPayloadBytesHashed THEN t.email ELSE "",
     role |-> IF RoleEnd(t) <= JwtPayloadBytesHashed THEN t.role ELSE "",
     iat |-> IF IatEnd(t) <= JwtPayloadBytesHashed THEN t.iat ELSE 0 - 1]

\* AuthService.hashData on a refresh token: Bcrypt.genSalt, Bcrypt.hash. The
\* salt is fresh on every call: the model takes the number of the request.
hashData(data, salt) == [salt |-> salt, data |-> JwtFirst72(data)]

\* Mutant of BcryptCompareToken: every token matches.
BcryptCompareToken_AlwaysTrue(data, hashed) == TRUE

\* Bcrypt.compare(refreshToken, hashedRefreshToken)
BcryptCompareToken(data, hashed) == JwtFirst72(data) = hashed.data

\* ProfilesService.hashData on a password (shorter than 72 bytes).
hashPassword(pw, salt) == [salt |-> salt, data |-> pw]

\* Bcrypt.compare(password, foundUser.password)
BcryptComparePassword(pw, hashed) == pw = hashed.data

\* ------------------------------------------------------------------ state

VARIABLES
    profiles,      \* the profile table: id -> row
    now,           \* the clock, in seconds
    req,           \* the requests in flight, one per slot
    nOps,          \* requests started so far
    clientTokens,  \* every token a response has handed to a caller
    accepted,      \* <<refresh token, request number>> of each passed hash check
    rotated,       \* refresh tokens whose refresh has returned a new pair
    lastWrite,     \* per identity, the refresh token whose hash was written last
    touched,       \* identities a signOut, profile update or remove has run on
    signedOut,     \* identities signed out and not signed in again since
    students,      \* the student table with its course relation: id -> row
    lecturers,     \* the lecturer table with its course relation: id -> row
    courseTable,   \* the ids of the stored courses
    call           \* the last updateStudentCourses / updateLecturerCourses call

vars == <<profiles, now, req, nOps, clientTokens, accepted, rotated, lastWrite, touched, signedOut,
         students, lecturers, courseTable, call>>

\* Profile entity (the columns the core reads and writes).
Row(email, password, role, hashedRefreshToken) ==
    [exists |-> TRUE, email |-> email, password |-> password, role |-> role,
     hashedRefreshToken |-> hashedRefreshToken]
NoRow ==
    [exists |-> FALSE, email |-> "", password |-> hashPassword("", 0), role |-> "",
     hashedRefreshToken |-> Null]

\* repository.findOne({ where: { email } }): the rows that match; no unique
\* constraint and no ORDER BY, so any of them may be the one returned.
FindByEmail(email) == {i \in Ids : profiles[i].exists /\ profiles[i].email = email}

\* The request bodies of PATCH /profiles/:id tried: "" stands for an absent
\* property. email and role are properties of UpdateProfileDto;
\* hashedRefreshToken is not, and the global ValidationPipe, constructed with
\* no whitelist option, leaves such a property in the body: "null" stands for
\* the JSON body {"hashedRefreshToken": null}.
NoDto == [email |-> "", role |-> "", hashedRefreshToken |-> ""]
UpdateDtos ==
    {[NoDto EXCEPT !.email = e] : e \in Emails} \cup
    {[NoDto EXCEPT !.role = r] : r \in {"student", "admin"}} \cup
    {[NoDto EXCEPT !.hashedRefreshToken = "null"]}

\* repository.update(id, partial): every property of the body that names a
\* column is written.
ApplyDto(row, dto) ==
    [row EXCEPT !.email = IF dto.email = "" THEN @ ELSE dto.email,
                !.role = IF dto.role = "" THEN @ ELSE dto.role,
                !.hashedRefreshToken = IF dto.hashedRefreshToken = "" THEN @ ELSE Null]

\* A response body that carries a profile: the row and the columns of it that
\* are serialized.
Columns == {"email", "password", "role", "hashedRefreshToken"}
NoBody == [row |-> NoRow, columns |-> {}]

\* ProfilesService.excludePassword: the profile without password and
\* hashedRefreshToken.
excludePassword(profile) ==
    [row |-> [profile EXCEPT !.password = NoRow.password, !.hashedRefreshToken = Null],
     columns |-> Columns \ {"password", "hashedRefreshToken"}]

\* ProfilesService.findOne: repository.findOneBy({ id }), returned as read
\* (the call of excludePassword is commented out).
findOne(id) == [row |-> profiles[id], columns |-> Columns]

\* ----------------------------------------------------------------- routes

NoRoles == [set |-> FALSE, roles |-> {}]
Roles(rs) == [set |-> TRUE, roles |-> rs]

\* Route metadata: @Public(), @UseGuards(...) of the controller and the
\* handler, @Roles(...), and the handler the route runs.
Route(name, isPublic, guards, roles) ==
    [name |-> name, isPublic |-> isPublic, guards |-> guards, roles |-> roles]

R_signin == Route("POST /auth/signin", TRUE, <<>>, NoRoles)
R_signout == Route("GET /auth/signout/:id", FALSE, <<"AtGuard">>, NoRoles)
R_refresh == Route("GET /auth/refresh", TRUE, <<"RtGuard">>, NoRoles)
R_lecturerCreate ==
    Route("POST /lecturer", TRUE, <<"AtGuard", "RolesGuard">>, NoRoles)
R_lecturerFindAll ==
    Route("GET /lecturer", FALSE, <<"AtGuard", "RolesGuard">>, Roles({"admin", "faculty"}))
R_coursesFindOne ==
    Route("GET /courses/:id", FALSE, <<"AtGuard", "RolesGuard">>,
          Roles({"admin", "faculty", "student"}))
R_coursesFindAll ==
    Route("GET /courses", FALSE, <<"AtGuard", "RolesGuard">>,
          Roles({"admin", "faculty", "student"}))
R_departmentsFindAll ==
    Route("GET /departments", FALSE, <<"AtGuard", "RolesGuard">>,
          Roles({"admin", "faculty", "student"}))
R_departmentsFindOne ==
    Route("GET /departments/:id", FALSE, <<"AtGuard", "RolesGuard">>,
          Roles({"admin", "faculty", "student"}))
R_profilesUpdate ==
    Route("PATCH /profiles/:id", FALSE, <<"AtGuard", "RolesGuard">>,
          Roles({"admin", "faculty", "student"}))
R_profilesRemove ==
    Route("DELETE /profiles/:id", FALSE, <<"AtGuard", "RolesGuard">>, Roles({"admin"}))

\* Routes whose handler does not touch the profile table.
OtherRoutes == {R_lecturerCreate, R_lecturerFindAll, R_coursesFindOne}

\* The decorators compose freely: the declarations a controller under
\* @UseGuards(AtGuard, RolesGuard) can make of a route, @Public() or not, and
\* no @Roles, @Roles() with no role, or @Roles(Role.ADMIN).
RolesMetadata == {NoRoles, Roles({}), Roles({"admin"})}
MetadataName(isPublic, roles) ==
    CASE ~roles.set -> IF isPublic THEN "@Public()" ELSE "no decorator"
      [] roles.set /\ roles.roles = {} -> IF isPublic THEN "@Public() @Roles()" ELSE "@Roles()"
      [] OTHER -> IF isPublic THEN "@Public() @Roles(Role.ADMIN)" ELSE "@Roles(Role.ADMIN)"
MetadataRoutes ==
    {Route(MetadataName(isPublic, roles), isPublic, <<"AtGuard", "RolesGuard">>, roles) :
       isPublic \in BOOLEAN, roles \in RolesMetadata}

\* The routes that show courses and departments.
ViewRoutes == {R_coursesFindAll, R_coursesFindOne, R_departmentsFindAll, R_departmentsFindOne}

Routes ==
    {R_signin, R_signout, R_refresh, R_profilesUpdate, R_profilesRemove}
      \cup OtherRoutes \cup MetadataRoutes \cup ViewRoutes

\* APP_GUARD providers of AppModule (the ThrottlerGuard is rate limiting).
GlobalGuards == <<"AtGuard">>

\* ----------------------------------------------------------------- guards

\* Mutant of AtGuardCanActivate: a request with no Authorization header is
\* let through as if the route were public.
AtGuardCanActivate_MissingTokenPasses(route, bearer, user) ==
    IF route.isPublic \/ bearer = NoToken THEN [outcome |-> "Bypassed", user |-> user]
    ELSE IF JwtVerify(bearer, AccessSecret, now)
         THEN [outcome |-> "Authenticated", user |-> bearer]
         ELSE [outcome |-> "Rejected", user |-> user]

\* Mutant of AtGuardCanActivate: the access token is accepted only while its
\* subject has a stored refresh-token hash, so a sign-out revokes it.
AtGuardCanActivate_RequiresSession(route, bearer, user) ==
    IF route.isPublic THEN [outcome |-> "Bypassed", user |-> user]
    ELSE IF /\ JwtVerify(bearer, AccessSecret, now)
            /\ bearer.sub \in Ids
            /\ profiles[bearer.sub].hashedRefreshToken # Null
         THEN [outcome |-> "Authenticated", user |-> bearer]
         ELSE [outcome |-> "Rejected", user |-> user]

\* AtGuard.canActivate: a public route passes with no look at the token;
\* otherwise AuthGuard('jwt-at') verifies the bearer under the access secret
\* and AtStrategy.validate puts its payload in request.user.
AtGuardCanActivate(route, bearer, user) ==
    IF route.isPublic THEN [outcome |-> "Bypassed", user |-> user]
    ELSE IF JwtVerify(bearer, AccessSecret, now)
         THEN [outcome |-> "Authenticated", user |-> bearer]
         ELSE [outcome |-> "Rejected", user |-> user]

\* RtGuard: AuthGuard('jwt-rt'), the bearer under the refresh secret;
\* RfStrategy.validate puts payload and raw token in request.user.
RtGuardCanActivate(route, bearer, user) ==
    IF JwtVerify(bearer, RefreshSecret, now)
    THEN [outcome |-> "Authenticated", user |-> bearer]
    ELSE [outcome |-> "Rejected", user |-> user]

\* Mutant of RolesGuardCanActivate: the role claim of the token decides.
RolesGuardCanActivate_TrustsClaim(route, bearer, user) ==
    IF ~route.roles.set THEN [outcome |-> "Allow", user |-> user]
    ELSE IF user = NoToken THEN [outcome |-> "Deny", user |-> user]
    ELSE IF ~profiles[user.sub].exists THEN [outcome |-> "Deny", user |-> user]
    ELSE IF \E role \in route.roles.roles : user.role = role
         THEN [outcome |-> "Allow", user |-> user]
         ELSE [outcome |-> "Deny", user |-> user]

\* Mutant of RolesGuardCanActivate: no check that the profile was found.
RolesGuardCanActivate_NoProfileCheck(route, bearer, user) ==
    IF ~route.roles.set THEN [outcome |-> "Allow", user |-> user]
    ELSE IF user = NoToken THEN [outcome |-> "Deny", user |-> user]
    ELSE LET role == IF profiles[user.sub].exists THEN profiles[user.sub].role ELSE user.role
         IN  IF role \in route.roles.roles
             THEN [outcome |-> "Allow", user |-> user]
             ELSE [outcome |-> "Deny", user |-> user]

\* RolesGuard.canActivate
RolesGuardCanActivate(route, bearer, user) ==
    IF ~route.roles.set THEN [outcome |-> "Allow", user |-> user]
    ELSE IF user = NoToken THEN [outcome |-> "Deny", user |-> user]
    ELSE LET userProfile == profiles[user.sub]
         IN  IF ~userProfile.exists THEN [outcome |-> "Deny", user |-> user]
             ELSE IF \E role \in route.roles.roles : userProfile.role = role
                  THEN [outcome |-> "Allow", user |-> user]
                  ELSE [outcome |-> "Deny", user |-> user]

canActivate(guard, route, bearer, user) ==
    CASE guard = "AtGuard" -> AtGuardCanActivate(route, bearer, user)
      [] guard = "RtGuard" -> RtGuardCanActivate(route, bearer, user)
      [] guard = "RolesGuard" -> RolesGuardCanActivate(route, bearer, user)

Failed(outcome) == outcome \in {"Rejected", "Deny"}

\* The guards of a request in Nest's order (global, controller, handler):
\* the first guard that fails ends the request, 401 from a passport guard
\* and 403 from a guard that returned false.
RECURSIVE RunGuards(_, _, _, _, _)
RunGuards(guards, route, bearer, user, trace) ==
    IF guards = <<>> THEN [passed |-> TRUE, status |-> 200, user |-> user, trace |-> trace]
    ELSE LET g == Head(guards)
             r == canActivate(g, route, bearer, user)
             t == Append(trace, [guard |-> g, outcome |-> r.outcome])
         IN  IF Failed(r.outcome)
             THEN [passed |-> FALSE, status |-> IF r.outcome = "Deny" THEN 403 ELSE 401,
                   user |-> r.user, trace |-> t]
             ELSE RunGuards(Tail(guards), route, bearer, r.user, t)

Pipeline(route, bearer) ==
    RunGuards(GlobalGuards \o route.guards, route, bearer, NoToken, <<>>)

\* --------------------------------------------------------------- requests

NoTokens == [accessToken |-> NoToken, refreshToken |-> NoToken]
NoFound == [id |-> 0, row |-> NoRow]

\* A request slot: the request's inputs, what the guards made of it, the
\* handler's locals (found, tokens) and position (pc), and the response.
\* The rest is history, taken when the request entered: subRow the stored row
\* of the bearer's subject, opno the request's number, usedBefore whether a
\* refresh with this bearer had already returned, wasLive whether the bearer
\* was the refresh token written last for its subject, afterSignOut whether
\* the identity of the id parameter was signed out (subSignedOut: the subject
\* of the bearer), atValid / rtValid whether
\* the bearer verified as an access / a refresh token; and matches, taken at
\* signIn's lookup: the stored identities the email and password match;
\* before is the profile table as the request found it, body the profile
\* its response carries, and saved whether saveRefreshToken has written the
\* hash of the request's refresh token to a row.
Idle ==
    [pc |-> "idle", route |-> "", bearer |-> NoToken, id |-> 0, email |-> "",
     password |-> "", dto |-> NoDto, user |-> NoToken, trace |-> <<>>,
     handler |-> FALSE, subRow |-> NoRow, found |-> NoFound, tokens |-> NoTokens,
     status |-> 0, message |-> "", opno |-> 0, usedBefore |-> FALSE, wasLive |-> FALSE,
     afterSignOut |-> FALSE, atValid |-> FALSE, rtValid |-> FALSE, matches |-> {},
     before |-> [i \in Ids |-> NoRow], body |-> NoBody, saved |-> FALSE,
     subSignedOut |-> FALSE]

\* The bearer values a caller can present: nothing, junk, a token signed with
\* a foreign secret, or any token some response has returned.
Bearers == {NoToken, Malformed, Forged} \cup clientTokens

\* A new request takes the lowest slot that holds no request.
Free(s) ==
    /\ nOps < MaxOps
    /\ req[s].pc = "idle"
    /\ \A t \in Slots : t < s => req[t].pc # "idle"

Respond(r, status, message) ==
    [r EXCEPT !.pc = "done", !.status = status, !.message = message]

\* A request enters: the guards run, then either the failure is the response
\* or the handler is entered at pc.
Enter(route, bearer, id, email, password, dto, pc) ==
    LET p == Pipeline(route, bearer)
        r == [Idle EXCEPT !.route = route.name, !.bearer = bearer, !.id = id,
                          !.email = email, !.password = password, !.dto = dto,
                          !.user = p.user, !.trace = p.trace, !.handler = p.passed,
                          !.subRow = IF bearer.sub \in Ids THEN profiles[bearer.sub] ELSE NoRow,
                          !.opno = nOps + 1, !.usedBefore = bearer \in rotated,
                          !.wasLive = bearer.sub \in Ids /\ lastWrite[bearer.sub] = Some(bearer),
                          !.afterSignOut = id \in signedOut,
                          !.subSignedOut = bearer.sub \in signedOut,
                          !.atValid = JwtVerify(bearer, AccessSecret, now),
                          !.rtValid = JwtVerify(bearer, RefreshSecret, now),
                          !.before = profiles]
    IN  IF p.passed THEN [r EXCEPT !.pc = pc]
        ELSE Respond(r, p.status, IF p.status = 401 THEN "Unauthorized" ELSE "Forbidden resource")

Unchanged == UNCHANGED <<profiles, now, clientTokens, accepted, rotated, lastWrite, touched, signedOut, students, lecturers, courseTable, call>>

\* AuthController.signInLocal
StartSignIn(s, email, password) ==
    /\ Free(s)
    /\ req' = [req EXCEPT ![s] = Enter(R_signin, NoToken, 0, email, password, NoDto, "signIn_find")]
    /\ nOps' = nOps + 1
    /\ Unchanged

\* Mutant of StartSignOut: the path id must be the subject of the access
\* token, else 403.
StartSignOut_OwnIdOnly(s, id, bearer) ==
    /\ Free(s)
    /\ LET r == Enter(R_signout, bearer, id, "", "", NoDto, "signOut")
       IN  req' = [req EXCEPT ![s] =
                     IF r.pc # "done" /\ r.user.sub # id
                     THEN Respond(r, 403, "Forbidden resource")
                     ELSE r]
    /\ nOps' = nOps + 1
    /\ Unchanged

\* AuthController.signOut
StartSignOut(s, id, bearer) ==
    /\ Free(s)
    /\ req' = [req EXCEPT ![s] = Enter(R_signout, bearer, id, "", "", NoDto, "signOut")]
    /\ nOps' = nOps + 1
    /\ Unchanged

\* Mutant of IdentityMatch: the id of the query is not compared.
IdentityMatch_Skipped(user, id) == TRUE

\* AuthController.refreshTokens: user.sub !== id is answered 'Invalid user'.
IdentityMatch(user, id) == user.sub = id

\* AuthController.refreshTokens: RtGuard, then the id of the query against
\* the subject of the token.
StartRefresh(s, id, bearer) ==
    /\ Free(s)
    /\ LET r == Enter(R_refresh, bearer, id, "", "", NoDto, "refresh_find")
       IN  req' = [req EXCEPT ![s] =
                     IF r.pc # "done" /\ ~IdentityMatch(r.user, id)
                     THEN Respond(r, 401, "Invalid user")
                     ELSE r]
    /\ nOps' = nOps + 1
    /\ Unchanged

\* ProfilesController.update
StartProfileUpdate(s, id, dto, bearer) ==
    /\ Free(s)
    /\ req' = [req EXCEPT ![s] = Enter(R_profilesUpdate, bearer, id, "", "", dto, "update_write")]
    /\ nOps' = nOps + 1
    /\ Unchanged

\* ProfilesController.remove
StartProfileRemove(s, id, bearer) ==
    /\ Free(s)
    /\ req' = [req EXCEPT ![s] = Enter(R_profilesRemove, bearer, id, "", "", NoDto, "remove")]
    /\ nOps' = nOps + 1
    /\ Unchanged

\* A request to a route whose handler leaves the profile table alone.
StartOther(s, route, bearer) ==
    /\ Free(s)
    /\ LET r == Enter(route, bearer, 0, "", "", NoDto, "handler")
       IN  req' = [req EXCEPT ![s] = IF r.pc = "handler" THEN Respond(r, 200, "OK") ELSE r]
    /\ nOps' = nOps + 1
    /\ Unchanged

\* ------------------------------------------------------------ AuthService

\* Mutant of saveRefreshToken: the update has no where clause and writes the
\* hash to every row.
saveRefreshToken_AllRows(userId, refreshToken, salt) ==
    [i \in Ids |->
       IF profiles[i].exists
       THEN [profiles[i] EXCEPT !.hashedRefreshToken = Some(hashData(refreshToken, salt))]
       ELSE profiles[i]]

\* AuthService.saveRefreshToken: the table after hashing the token and
\* repository.update(userId, { hashedRefreshToken }); no row, no change.
saveRefreshToken(userId, refreshToken, salt) ==
    IF profiles[userId].exists
    THEN [profiles EXCEPT ![userId].hashedRefreshToken = Some(hashData(refreshToken, salt))]
    ELSE profiles

\* The stored identities an (email, password) pair matches.
Matching(email, password) ==
    {[id |-> i, email |-> profiles[i].email, role |-> profiles[i].role] :
       i \in {j \in FindByEmail(email) : BcryptComparePassword(password, profiles[j].password)}}

\* AuthService.signIn, up to the await of findOne by email
SignInFind(s) ==
    /\ req[s].pc = "signIn_find"
    /\ LET found == FindByEmail(req[s].email)
       IN  IF found = {}
           THEN req' = [req EXCEPT ![s] = Respond(@, 404, "User with email not found")]
           ELSE \E i \in found :
                  req' = [req EXCEPT ![s].pc = "signIn_tokens",
                                     ![s].found = [id |-> i, row |-> [profiles[i] EXCEPT !.hashedRefreshToken = Null]],
                                     ![s].matches = Matching(req[s].email, req[s].password)]
    /\ UNCHANGED <<profiles, now, nOps, clientTokens, accepted, rotated, lastWrite, touched, signedOut, students, lecturers, courseTable, call>>

\* Mutant of SignInTokens: a wrong password ends the session of the identity
\* the email names.
SignInTokens_FailureEndsSession(s) ==
    /\ req[s].pc = "signIn_tokens"
    /\ LET foundUser == req[s].found
       IN  IF ~BcryptComparePassword(req[s].password, foundUser.row.password)
           THEN /\ req' = [req EXCEPT ![s] = Respond(@, 404, "Invalid credentials")]
                /\ profiles' = [profiles EXCEPT ![foundUser.id].hashedRefreshToken = Null]
           ELSE /\ req' = [req EXCEPT ![s].pc = "signIn_save",
                                      ![s].tokens = getTokens(foundUser.id, foundUser.row.email,
                                                              foundUser.row.role, now)]
                /\ profiles' = profiles
    /\ UNCHANGED <<now, nOps, clientTokens, accepted, rotated, lastWrite, touched, signedOut, students, lecturers, courseTable, call>>

\* AuthService.signIn: Bcrypt.compare of the password, then getTokens
SignInTokens(s) ==
    /\ req[s].pc = "signIn_tokens"
    /\ LET foundUser == req[s].found
       IN  IF ~BcryptComparePassword(req[s].password, foundUser.row.password)
           THEN req' = [req EXCEPT ![s] = Respond(@, 404, "Invalid credentials")]
           ELSE req' = [req EXCEPT ![s].pc = "signIn_save",
                                   ![s].tokens = getTokens(foundUser.id, foundUser.row.email,
                                                           foundUser.row.role, now)]
    /\ UNCHANGED <<profiles, now, nOps, clientTokens, accepted, rotated, lastWrite, touched, signedOut, students, lecturers, courseTable, call>>

\* AuthService.signIn: await this.saveRefreshToken(foundUser.id, refreshToken)
SignInSave(s) ==
    /\ req[s].pc = "signIn_save"
    /\ profiles' = saveRefreshToken(req[s].found.id, req[s].tokens.refreshToken, req[s].opno)
    /\ req' = [req EXCEPT ![s].pc = "signIn_return",
                          ![s].saved = profiles[req[s].found.id].exists]
    /\ lastWrite' = IF profiles[req[s].found.id].exists
                    THEN [lastWrite EXCEPT ![req[s].found.id] = Some(req[s].tokens.refreshToken)]
                    ELSE lastWrite
    /\ signedOut' = signedOut \ {req[s].found.id}
    /\ UNCHANGED <<now, nOps, clientTokens, accepted, rotated, touched, students, lecturers, courseTable, call>>

\* AuthService.signIn: the update of saveRefreshToken rejects; the exception
\* leaves signIn and the request is answered 500.
SignInSaveFails(s) ==
    /\ req[s].pc = "signIn_save"
    /\ req' = [req EXCEPT ![s] = Respond(@, 500, "Internal server error")]
    /\ UNCHANGED <<profiles, now, nOps, clientTokens, accepted, rotated, lastWrite, touched, signedOut, students, lecturers, courseTable, call>>

\* AuthService.signIn: return { accessToken, refreshToken }
SignInReturn(s) ==
    /\ req[s].pc = "signIn_return"
    /\ req' = [req EXCEPT ![s] = Respond(@, 200, "OK")]
    /\ clientTokens' = clientTokens \cup {req[s].tokens.accessToken, req[s].tokens.refreshToken}
    /\ UNCHANGED <<profiles, now, nOps, accepted, rotated, lastWrite, touched, signedOut, students, lecturers, courseTable, call>>

\* Mutant of clearRefreshToken: the sign-out reports success and leaves the
\* stored hash in place.
clearRefreshToken_Keeps(userId) == profiles

\* AuthService.signOut: the table after
\* repository.update(userId, { hashedRefreshToken: null }); no row, no change.
clearRefreshToken(userId) ==
    IF profiles[userId].exists
    THEN [profiles EXCEPT ![userId].hashedRefreshToken = Null]
    ELSE profiles

\* Mutant of UpdateAffected: the rows whose value changed are counted, not
\* the rows the criteria matched.
UpdateAffected_ChangedRows(userId) ==
    IF profiles[userId].exists /\ profiles[userId].hashedRefreshToken # Null THEN 1 ELSE 0

\* res.affected of repository.update(userId, ...): the rows the id matched.
UpdateAffected(userId) == IF profiles[userId].exists THEN 1 ELSE 0

\* AuthService.signOut
SignOut(s) ==
    /\ req[s].pc = "signOut"
    /\ LET userId == req[s].id
       IN  /\ profiles' = clearRefreshToken(userId)
           /\ IF UpdateAffected(userId) # 0
              THEN /\ req' = [req EXCEPT ![s] = Respond(@, 200, "signed out successfully")]
                   /\ signedOut' = signedOut \cup {userId}
              ELSE /\ req' = [req EXCEPT ![s] = Respond(@, 404, "User not found")]
                   /\ signedOut' = signedOut
    /\ touched' = touched \cup {req[s].id}
    /\ lastWrite' = [lastWrite EXCEPT ![req[s].id] = Null]
    /\ UNCHANGED <<now, nOps, clientTokens, accepted, rotated, students, lecturers, courseTable, call>>

\* AuthService.refreshTokens, up to the await of findOne by id
RefreshFind(s) ==
    /\ req[s].pc = "refresh_find"
    /\ LET foundUser == profiles[req[s].id]
       IN  IF ~foundUser.exists
           THEN req' = [req EXCEPT ![s] = Respond(@, 404, "User not found")]
           ELSE IF foundUser.hashedRefreshToken = Null
           THEN req' = [req EXCEPT ![s] = Respond(@, 404, "No refresh token found")]
           ELSE req' = [req EXCEPT ![s].pc = "refresh_tokens",
                                   ![s].found = [id |-> req[s].id, row |-> foundUser]]
    /\ UNCHANGED <<profiles, now, nOps, clientTokens, accepted, rotated, lastWrite, touched, signedOut, students, lecturers, courseTable, call>>

\* AuthService.refreshTokens: Bcrypt.compare against the stored hash, then
\* getTokens
RefreshTokens(s) ==
    /\ req[s].pc = "refresh_tokens"
    /\ LET foundUser == req[s].found
           refreshToken == req[s].bearer
       IN  IF ~BcryptCompareToken(refreshToken, The(foundUser.row.hashedRefreshToken))
           THEN /\ req' = [req EXCEPT ![s] = Respond(@, 404, "Invalid refresh token")]
                /\ accepted' = accepted
           ELSE /\ req' = [req EXCEPT ![s].pc = "refresh_save",
                                      ![s].tokens = getTokens(foundUser.id, foundUser.row.email,
                                                              foundUser.row.role, now)]
                /\ accepted' = accepted \cup {<<refreshToken, req[s].opno>>}
    /\ UNCHANGED <<profiles, now, nOps, clientTokens, rotated, lastWrite, touched, signedOut, students, lecturers, courseTable, call>>

\* AuthService.refreshTokens: await this.saveRefreshToken(foundUser.id,
\* newRefreshToken)
RefreshSave(s) ==
    /\ req[s].pc = "refresh_save"
    /\ profiles' = saveRefreshToken(req[s].found.id, req[s].tokens.refreshToken, req[s].opno)
    /\ req' = [req EXCEPT ![s].pc = "refresh_return",
                          ![s].saved = profiles[req[s].found.id].exists]
    /\ lastWrite' = IF profiles[req[s].found.id].exists
                    THEN [lastWrite EXCEPT ![req[s].found.id] = Some(req[s].tokens.refreshToken)]
                    ELSE lastWrite
    /\ UNCHANGED <<now, nOps, clientTokens, accepted, rotated, touched, signedOut, students, lecturers, courseTable, call>>

\* AuthService.refreshTokens: the update of saveRefreshToken rejects; the
\* exception leaves refreshTokens and the request is answered 500.
RefreshSaveFails(s) ==
    /\ req[s].pc = "refresh_save"
    /\ req' = [req EXCEPT ![s] = Respond(@, 500, "Internal server error")]
    /\ UNCHANGED <<profiles, now, nOps, clientTokens, accepted, rotated, lastWrite, touched, signedOut, students, lecturers, courseTable, call>>

\* AuthService.refreshTokens: return { accessToken, refreshToken }
RefreshReturn(s) ==
    /\ req[s].pc = "refresh_return"
    /\ req' = [req EXCEPT ![s] = Respond(@, 200, "OK")]
    /\ clientTokens' = clientTokens \cup {req[s].tokens.accessToken, req[s].tokens.refreshToken}
    /\ rotated' = rotated \cup {req[s].bearer}
    /\ UNCHANGED <<profiles, now, nOps, accepted, lastWrite, touched, signedOut, students, lecturers, courseTable, call>>

\* --------------------------------------------------------- ProfilesService

\* ProfilesService.update: repository.update(id, updateProfileDto)
ProfileUpdateWrite(s) ==
    /\ req[s].pc = "update_write"
    /\ profiles' = IF profiles[req[s].id].exists
                   THEN [profiles EXCEPT ![req[s].id] = ApplyDto(@, req[s].dto)]
                   ELSE profiles
    /\ req' = [req EXCEPT ![s].pc = "update_find"]
    /\ touched' = touched \cup {req[s].id}
    /\ UNCHANGED <<now, nOps, clientTokens, accepted, rotated, lastWrite, signedOut, students, lecturers, courseTable, call>>

\* ProfilesService.update: return await this.findOne(id)
ProfileUpdateFind(s) ==
    /\ req[s].pc = "update_find"
    /\ req' = [req EXCEPT ![s] = IF profiles[req[s].id].exists
                                 THEN [Respond(@, 200, "OK") EXCEPT !.body = findOne(req[s].id)]
                                 ELSE Respond(@, 404, "Profile not found")]
    /\ UNCHANGED <<profiles, now, nOps, clientTokens, accepted, rotated, lastWrite, touched, signedOut, students, lecturers, courseTable, call>>

\* ProfilesService.remove
ProfileRemove(s) ==
    /\ req[s].pc = "remove"
    /\ profiles' = [profiles EXCEPT ![req[s].id] = NoRow]
    /\ req' = [req EXCEPT ![s] = Respond(@, 200, "removed")]
    /\ touched' = touched \cup {req[s].id}
    /\ lastWrite' = [lastWrite EXCEPT ![req[s].id] = Null]
    /\ signedOut' = signedOut \ {req[s].id}
    /\ UNCHANGED <<now, nOps, clientTokens, accepted, rotated, students, lecturers, courseTable, call>>

\* The response has been sent: the request and its locals are gone.
Release(s) ==
    /\ req[s].pc = "done"
    /\ req' = [req EXCEPT ![s] = Idle]
    /\ UNCHANGED <<profiles, now, nOps, clientTokens, accepted, rotated, lastWrite, touched, signedOut, students, lecturers, courseTable, call>>

\* ------------------------------------------- StudentsService, LecturerService

\* A student or lecturer row with its courses relation.
Member(courses) == [exists |-> TRUE, courses |-> courses]
NoMember == [exists |-> FALSE, courses |-> {}]

NoCall == [op |-> "", id |-> 0, courseIds |-> <<>>, before |-> NoMember, status |-> 0,
           message |-> "", missing |-> <<>>]

\* The lists of at most n course ids.
RECURSIVE Lists(_)
Lists(n) ==
    IF n = 0 THEN {<<>>}
    ELSE Lists(n - 1) \cup {Append(l, c) : l \in {m \in Lists(n - 1) : Len(m) = n - 1}, c \in CourseIds}

CourseIdLists == Lists(MaxCourseIds)

\* courseRepository.findBy({ id: In(courseIds) }): the stored courses whose id
\* is one of the list's, each once.
findByIn(courseIds) == {c \in courseTable : \E k \in 1..Len(courseIds) : courseIds[k] = c}

\* missingIds: courseIds.filter((id) => !foundIds.includes(id))
missingIds(courseIds, foundIds) == SelectSeq(courseIds, LAMBDA id : id \notin foundIds)

\* The outcome of the body shared by updateStudentCourses and
\* updateLecturerCourses on the row found: the NotFoundExceptions, or the row
\* saved with the courses found.
updateCourses(member, courseIds) ==
    LET courses == findByIn(courseIds)
    IN  IF ~member.exists
        THEN [status |-> 404, message |-> "not found", missing |-> <<>>, member |-> member]
        ELSE IF Cardinality(courses) # Len(courseIds)
        THEN [status |-> 404, message |-> "Courses not found", missing |-> missingIds(courseIds, courses),
              member |-> member]
        ELSE [status |-> 200, message |-> "OK", missing |-> <<>>,
              member |-> [member EXCEPT !.courses = courses]]

\* StudentsService.updateStudentCourses
updateStudentCourses(studentId, courseIds) ==
    LET out == updateCourses(students[studentId], courseIds)
    IN  /\ students' = [students EXCEPT ![studentId] = out.member]
        /\ call' = [op |-> "updateStudentCourses", id |-> studentId, courseIds |-> courseIds,
                    before |-> students[studentId], status |-> out.status,
                    message |-> out.message, missing |-> out.missing]
        /\ UNCHANGED <<profiles, now, req, nOps, clientTokens, accepted, rotated, lastWrite,
                       touched, signedOut, lecturers, courseTable>>

\* LecturerService.updateLecturerCourses
updateLecturerCourses(lecturerId, courseIds) ==
    LET out == updateCourses(lecturers[lecturerId], courseIds)
    IN  /\ lecturers' = [lecturers EXCEPT ![lecturerId] = out.member]
        /\ call' = [op |-> "updateLecturerCourses", id |-> lecturerId, courseIds |-> courseIds,
                    before |-> lecturers[lecturerId], status |-> out.status,
                    message |-> out.message, missing |-> out.missing]
        /\ UNCHANGED <<profiles, now, req, nOps, clientTokens, accepted, rotated, lastWrite,
                       touched, signedOut, students, courseTable>>

\* No student, lecturer or course is stored.
NoSchool ==
    /\ students = [i \in MemberIds |-> NoMember]
    /\ lecturers = [i \in MemberIds |-> NoMember]
    /\ courseTable = {}
    /\ call = NoCall

\* ------------------------------------------------------------------ clock

Tick ==
    /\ now < MaxTime
    /\ now' = now + 1
    /\ UNCHANGED <<profiles, req, nOps, clientTokens, accepted, rotated, lastWrite, touched, signedOut, students, lecturers, courseTable, call>>

\* ------------------------------------------------------------ specification

\* Two registered profiles, nobody signed in, no request in flight.
Init ==
    /\ profiles = [i \in Ids |->
                     IF i = 1 THEN Row("a@x.com", hashPassword("pw1", 1), "admin", Null)
                     ELSE Row("b@x.com", hashPassword("pw2", 1), "student", Null)]
    /\ now = 0
    /\ req = [s \in Slots |-> Idle]
    /\ nOps = 0
    /\ clientTokens = {}
    /\ accepted = {}
    /\ rotated = {}
    /\ lastWrite = [i \in Ids |-> Null]
    /\ touched = {}
    /\ signedOut = {}
    /\ NoSchool

\* No request is in flight and every response has been sent.
Quiet == \A s \in Slots : req[s].pc = "idle"

\* The whole API, one request at a time: a request starts when the one before
\* has responded, and the clock may advance between any two steps.
Next ==
    \/ \E s \in Slots, email \in SignInEmails, password \in Passwords :
         Quiet /\ StartSignIn(s, email, password)
    \/ \E s \in Slots, id \in Ids, bearer \in Bearers : Quiet /\ StartSignOut(s, id, bearer)
    \/ \E s \in Slots, id \in Ids, bearer \in Bearers : Quiet /\ StartRefresh(s, id, bearer)
    \/ \E s \in Slots, id \in Ids, dto \in UpdateDtos, bearer \in Bearers :
         Quiet /\ StartProfileUpdate(s, id, dto, bearer)
    \/ \E s \in Slots, id \in Ids, bearer \in Bearers : Quiet /\ StartProfileRemove(s, id, bearer)
    \/ \E s \in Slots, route \in OtherRoutes, bearer \in Bearers :
         Quiet /\ StartOther(s, route, bearer)
    \/ \E s \in Slots : SignInFind(s)
    \/ \E s \in Slots : SignInTokens(s)
    \/ \E s \in Slots : SignInSave(s)
    \/ \E s \in Slots : SignInReturn(s)
    \/ \E s \in Slots : SignOut(s)
    \/ \E s \in Slots : RefreshFind(s)
    \/ \E s \in Slots : RefreshTokens(s)
    \/ \E s \in Slots : RefreshSave(s)
    \/ \E s \in Slots : RefreshReturn(s)
    \/ \E s \in Slots : ProfileUpdateWrite(s)
    \/ \E s \in Slots : ProfileUpdateFind(s)
    \/ \E s \in Slots : ProfileRemove(s)
    \/ \E s \in Slots : Release(s)
    \/ Tick

Spec == Init /\ [][Next]_vars

\* The session endpoints under request-parallel scheduling: requests start
\* while others are in flight and their awaits interleave.
NextConcurrent ==
    \/ \E s \in Slots, email \in SignInEmails, password \in Passwords :
         StartSignIn(s, email, password)
    \/ \E s \in Slots, id \in Ids, bearer \in Bearers : StartSignOut(s, id, bearer)
    \/ \E s \in Slots, id \in Ids, bearer \in Bearers : StartRefresh(s, id, bearer)
    \/ \E s \in Slots : SignInFind(s)
    \/ \E s \in Slots : SignInTokens(s)
    \/ \E s \in Slots : SignInSave(s)
    \/ \E s \in Slots : SignInReturn(s)
    \/ \E s \in Slots : SignOut(s)
    \/ \E s \in Slots : RefreshFind(s)
    \/ \E s \in Slots : RefreshTokens(s)
    \/ \E s \in Slots : RefreshSave(s)
    \/ \E s \in Slots : RefreshReturn(s)
    \/ \E s \in Slots : Release(s)
    \/ Tick

SpecConcurrent == Init /\ [][NextConcurrent]_vars

\* Sign-in and refresh next to the removal of profiles, under request-parallel
\* scheduling, with a store whose update may reject.
NextStore ==
    \/ \E s \in Slots, email \in SignInEmails, password \in Passwords :
         StartSignIn(s, email, password)
    \/ \E s \in Slots, id \in Ids, bearer \in Bearers : StartRefresh(s, id, bearer)
    \/ \E s \in Slots, id \in Ids, bearer \in Bearers : StartProfileRemove(s, id, bearer)
    \/ \E s \in Slots : SignInFind(s)
    \/ \E s \in Slots : SignInTokens(s)
    \/ \E s \in Slots : SignInSave(s)
    \/ \E s \in Slots : SignInSaveFails(s)
    \/ \E s \in Slots : SignInReturn(s)
    \/ \E s \in Slots : RefreshFind(s)
    \/ \E s \in Slots : RefreshTokens(s)
    \/ \E s \in Slots : RefreshSave(s)
    \/ \E s \in Slots : RefreshSaveFails(s)
    \/ \E s \in Slots : RefreshReturn(s)
    \/ \E s \in Slots : ProfileRemove(s)
    \/ \E s \in Slots : Release(s)
    \/ Tick

SpecStore == Init /\ [][NextStore]_vars

\* Student 1 and lecturer 1 stored with no course, any of the courses stored,
\* nobody signed in.
InitCourses ==
    /\ profiles = [i \in Ids |->
                     IF i = 1 THEN Row("a@x.com", hashPassword("pw1", 1), "admin", Null)
                     ELSE Row("b@x.com", hashPassword("pw2", 1), "student", Null)]
    /\ now = 0
    /\ req = [s \in Slots |-> Idle]
    /\ nOps = 0
    /\ clientTokens = {}
    /\ accepted = {}
    /\ rotated = {}
    /\ lastWrite = [i \in Ids |-> Null]
    /\ touched = {}
    /\ signedOut = {}
    /\ students = [i \in MemberIds |-> IF i = 1 THEN Member({}) ELSE NoMember]
    /\ lecturers = [i \in MemberIds |-> IF i = 1 THEN Member({}) ELSE NoMember]
    /\ courseTable \in SUBSET CourseIds
    /\ call = NoCall

\* The course lists of students and lecturers are replaced, call after call.
NextCourses ==
    \/ \E studentId \in MemberIds, courseIds \in CourseIdLists :
         updateStudentCourses(studentId, courseIds)
    \/ \E lecturerId \in MemberIds, courseIds \in CourseIdLists :
         updateLecturerCourses(lecturerId, courseIds)

SpecCourses == InitCourses /\ [][NextCourses]_vars

\* The pair a sign-in of profile 2 at second 0 returns.
EarlierSession == getTokens(2, "b@x.com", "student", 0)

\* The table after that sign-in, its caller holding the pair.
InitSession ==
    /\ profiles = [i \in Ids |->
                     IF i = 1 THEN Row("a@x.com", hashPassword("pw1", 1), "admin", Null)
                     ELSE Row("b@x.com", hashPassword("pw2", 1), "student",
                              Some(hashData(EarlierSession.refreshToken, 0)))]
    /\ now = 0
    /\ req = [s \in Slots |-> Idle]
    /\ nOps = 0
    /\ clientTokens = {EarlierSession.accessToken, EarlierSession.refreshToken}
    /\ accepted = {}
    /\ rotated = {}
    /\ lastWrite = [i \in Ids |-> IF i = 2 THEN Some(EarlierSession.refreshToken) ELSE Null]
    /\ touched = {}
    /\ signedOut = {}
    /\ NoSchool

\* A signed-in caller's requests, one at a time: refresh, sign-out, and the
\* profile routes.
NextSession ==
    \/ \E s \in Slots, id \in Ids, bearer \in Bearers : Quiet /\ StartSignOut(s, id, bearer)
    \/ \E s \in Slots, id \in Ids, bearer \in Bearers : Quiet /\ StartRefresh(s, id, bearer)
    \/ \E s \in Slots, id \in Ids, dto \in UpdateDtos, bearer \in Bearers :
         Quiet /\ StartProfileUpdate(s, id, dto, bearer)
    \/ \E s \in Slots, id \in Ids, bearer \in Bearers : Quiet /\ StartProfileRemove(s, id, bearer)
    \/ \E s \in Slots : SignOut(s)
    \/ \E s \in Slots : RefreshFind(s)
    \/ \E s \in Slots : RefreshTokens(s)
    \/ \E s \in Slots : RefreshSave(s)
    \/ \E s \in Slots : RefreshReturn(s)
    \/ \E s \in Slots : ProfileUpdateWrite(s)
    \/ \E s \in Slots : ProfileUpdateFind(s)
    \/ \E s \in Slots : ProfileRemove(s)
    \/ \E s \in Slots : Release(s)
    \/ Tick

SpecSession == InitSession /\ [][NextSession]_vars

\* The gates over every declaration of a route: callers sign in, then present
\* any bearer on any of the declared routes.
NextGates ==
    \/ \E s \in Slots, email \in SignInEmails, password \in Passwords :
         Quiet /\ StartSignIn(s, email, password)
    \/ \E s \in Slots, route \in MetadataRoutes, bearer \in Bearers :
         Quiet /\ StartOther(s, route, bearer)
    \/ \E s \in Slots : SignInFind(s)
    \/ \E s \in Slots : SignInTokens(s)
    \/ \E s \in Slots : SignInSave(s)
    \/ \E s \in Slots : SignInReturn(s)
    \/ \E s \in Slots : Release(s)
    \/ Tick

SpecGates == Init /\ [][NextGates]_vars

\* Two registered profiles of any roles (POST /profiles stores the role of
\* its body), nobody signed in.
InitRoles ==
    /\ \E role1 \in Role, role2 \in Role :
         profiles = [i \in Ids |->
                       IF i = 1 THEN Row("a@x.com", hashPassword("pw1", 1), role1, Null)
                       ELSE Row("b@x.com", hashPassword("pw2", 1), role2, Null)]
    /\ now = 0
    /\ req = [s \in Slots |-> Idle]
    /\ nOps = 0
    /\ clientTokens = {}
    /\ accepted = {}
    /\ rotated = {}
    /\ lastWrite = [i \in Ids |-> Null]
    /\ touched = {}
    /\ signedOut = {}
    /\ NoSchool

\* Callers of every role sign in and ask for courses and departments.
NextViews ==
    \/ \E s \in Slots, email \in SignInEmails, password \in Passwords :
         Quiet /\ StartSignIn(s, email, password)
    \/ \E s \in Slots, route \in ViewRoutes, bearer \in Bearers :
         Quiet /\ StartOther(s, route, bearer)
    \/ \E s \in Slots : SignInFind(s)
    \/ \E s \in Slots : SignInTokens(s)
    \/ \E s \in Slots : SignInSave(s)
    \/ \E s \in Slots : SignInReturn(s)
    \/ \E s \in Slots : Release(s)
    \/ Tick

SpecViews == InitRoles /\ [][NextViews]_vars

\* ----------------------------------------------------------------- claims

RouteOf(r) == CHOOSE route \in Routes : route.name = r.route

\* The refresh tokens responses have returned for identity i.
RefreshTokensOf(i) == {t \in clientTokens : t.typ = "rt" /\ t.sub = i}

\* The stored-hash check of refreshTokens, on the table as it is now.
PassesStoredHash(t, i) ==
    /\ profiles[i].exists
    /\ profiles[i].hashedRefreshToken # Null
    /\ BcryptCompareToken(t, The(profiles[i].hashedRefreshToken))

\* C1: single-use rotation. A refresh presenting a refresh token R with which
\* a refresh has already returned a new pair (R no longer being the token
\* written last) issues no tokens and does not succeed.
C1_SingleUseRotation ==
    \A s \in Slots :
      (/\ req[s].route = R_refresh.name
       /\ req[s].bearer.typ = "rt"
       /\ req[s].usedBefore
       /\ ~req[s].wasLive)
      => /\ req[s].tokens = NoTokens
         /\ req[s].pc = "done" => req[s].status # 200

\* C2: a given refresh token passes the hash check of refresh at most once
\* over the whole run, concurrent refresh requests included.
C2_AcceptedAtMostOnce ==
    \A a \in accepted, b \in accepted : a[1] = b[1] => a[2] = b[2]

\* C3: for each identity at most one of the refresh tokens ever returned for
\* it passes the stored-hash check (none when the stored hash is null).
C3_AtMostOneLiveToken ==
    \A i \in Ids : Cardinality({t \in RefreshTokensOf(i) : PassesStoredHash(t, i)}) <= 1

\* C5: once concurrent signIn and refresh operations for an identity have all
\* completed, the stored hash is non-null and the returned refresh tokens
\* that pass the stored-hash check are exactly the one written last.
C5_LastWriteIsTheOnlyLiveToken ==
    \A i \in Ids :
      (Quiet /\ i \notin touched /\ lastWrite[i] # Null)
      => /\ profiles[i].hashedRefreshToken # Null
         /\ \A t \in RefreshTokensOf(i) : PassesStoredHash(t, i) <=> Some(t) = lastWrite[i]

\* C4: a refresh that follows the signOut of its identity (no sign-in in
\* between) fails with the not-found error of the null stored hash, issues no
\* tokens and leaves the stored hash null.
C4_RefreshAfterSignOutFails ==
    \A s \in Slots :
      (/\ req[s].route = R_refresh.name
       /\ req[s].afterSignOut
       /\ req[s].handler
       /\ req[s].user.sub = req[s].id)
      => /\ req[s].tokens = NoTokens
         /\ profiles[req[s].id].hashedRefreshToken = Null
         /\ req[s].pc = "done" =>
              req[s].status = 404 /\ req[s].message = "No refresh token found"

\* The refresh token a sign-in returned is presented after the sign-out and
\* is answered with the not-found error.
C4_Witness ==
    \E s \in Slots :
      /\ req[s].route = R_refresh.name
      /\ req[s].afterSignOut
      /\ req[s].bearer \in RefreshTokensOf(req[s].id)
      /\ req[s].pc = "done"
      /\ req[s].message = "No refresh token found"

\* What the guards of a request did.
Ran(r, guard) == \E k \in 1..Len(r.trace) : r.trace[k].guard = guard
Outcome(r, guard) ==
    LET k == CHOOSE j \in 1..Len(r.trace) : r.trace[j].guard = guard
    IN  r.trace[k].outcome
Authenticated(r) == \E k \in 1..Len(r.trace) : r.trace[k].outcome = "Authenticated"
Uses(route, guard) == \E k \in 1..Len(route.guards) : route.guards[k] = guard

\* C6: no stale role. When the role claim of the access token differs from
\* the role stored for its subject, the RolesGuard decides by the stored
\* role: it allows exactly when the stored role is among the required ones.
C6_NoStaleRole ==
    \A s \in Slots :
      LET r == req[s]
      IN  (/\ r.route # ""
           /\ RouteOf(r).roles.set
           /\ Ran(r, "RolesGuard")
           /\ r.subRow.exists
           /\ r.user.role # r.subRow.role)
          => /\ Outcome(r, "RolesGuard") = "Allow" <=> r.subRow.role \in RouteOf(r).roles.roles
             /\ r.handler <=> r.subRow.role \in RouteOf(r).roles.roles

\* A token issued to a student, whose stored role has since become admin, is
\* let through on a route for admin and faculty only.
C6_Witness ==
    \E s \in Slots :
      /\ req[s].route = R_lecturerFindAll.name
      /\ req[s].user.role = "student"
      /\ req[s].subRow.role = "admin"
      /\ req[s].handler
      /\ req[s].status = 200

C8_HandlerIffPublic ==
    \A s \in Slots :
      LET r == req[s]
      IN  (r.route # "" /\ ~r.atValid) => (r.handler <=> RouteOf(r).isPublic)

\* C8, amended: a request without a valid access token reaches the handler
\* only on a public route and is answered 401 on every other route; a public
\* route with no passport guard of its own is reached whatever the bearer,
\* and the public refresh route is reached iff the bearer is a valid refresh
\* token.
C8_DenyByDefault ==
    \A s \in Slots :
      LET r == req[s]
          route == RouteOf(r)
      IN  (r.route # "" /\ ~r.atValid)
          => /\ r.handler => route.isPublic
             /\ ~route.isPublic => ~r.handler /\ r.pc = "done" /\ r.status = 401
             /\ (route.isPublic /\ ~Uses(route, "RtGuard")) => r.handler
             /\ (route.isPublic /\ Uses(route, "RtGuard")) => (r.handler <=> r.rtValid)

\* An access token a sign-in returned is presented after it has expired, on
\* a route that is not public, and is answered 401.
C8_Witness ==
    \E s \in Slots :
      /\ req[s].route # ""
      /\ ~RouteOf(req[s]).isPublic
      /\ req[s].bearer \in clientTokens
      /\ req[s].bearer.typ = "at"
      /\ ~req[s].atValid
      /\ req[s].status = 401

\* C9: the RolesGuard runs only after an AtGuard has ended Authenticated,
\* never after a guard has ended Bypassed or Rejected, and no handler runs
\* after a guard has failed.
C9_RolesGuardOnlyWhenAuthenticated ==
    \A s \in Slots :
      LET r == req[s]
      IN  /\ \A k \in 1..Len(r.trace) :
               r.trace[k].guard = "RolesGuard"
               => /\ \E j \in 1..(k - 1) : r.trace[j].outcome = "Authenticated"
                  /\ \A j \in 1..(k - 1) : r.trace[j].outcome \notin {"Bypassed", "Rejected"}
          /\ r.handler => \A k \in 1..Len(r.trace) : ~Failed(r.trace[k].outcome)

ClaimsOf(t) == [id |-> t.sub, email |-> t.email, role |-> t.role]

\* C10: a signIn whose email and password match a stored identity returns an
\* access and a refresh token whose claims are that identity's id, email and
\* role, and the access token verifies under the access secret.
C10_SignInReturnsIdentityClaims ==
    \A s \in Slots :
      LET r == req[s]
      IN  (r.route = R_signin.name /\ r.pc = "done")
          => \A m \in r.matches :
               /\ r.status = 200
               /\ ClaimsOf(r.tokens.accessToken) = m
               /\ ClaimsOf(r.tokens.refreshToken) = m
               /\ JwtVerify(r.tokens.accessToken, "at", r.tokens.accessToken.iat)
               /\ JwtVerify(r.tokens.refreshToken, "rt", r.tokens.refreshToken.iat)

\* What a caller sees of a response.
Observable(r) == [status |-> r.status, message |-> r.message]

\* C11: sign-in failure is opaque. Any two failed sign-ins, one for an email
\* no identity has and one for a registered email with a wrong password, are
\* answered with the same status and message.
C11_SignInFailureOpaque ==
    \A s \in Slots, t \in Slots :
      (/\ req[s].route = R_signin.name /\ req[s].pc = "done" /\ req[s].status # 200
       /\ req[t].route = R_signin.name /\ req[t].pc = "done" /\ req[t].status # 200)
      => Observable(req[s]) = Observable(req[t])

\* The stored password hashes and refresh-token hashes.
StoredPasswordHashes == {profiles[i].password : i \in {j \in Ids : profiles[j].exists}}
StoredTokenHashes ==
    {profiles[i].hashedRefreshToken :
       i \in {j \in Ids : profiles[j].exists /\ profiles[j].hashedRefreshToken # Null}}

\* C12: no response, success or error, carries a stored password hash or a
\* stored refresh-token hash.
C12_NoHashInResponses ==
    \A s \in Slots :
      LET body == req[s].body
      IN  /\ "password" \in body.columns => body.row.password \notin StoredPasswordHashes
          /\ "hashedRefreshToken" \in body.columns
               => body.row.hashedRefreshToken \notin StoredTokenHashes

\* The stored refresh-token hash of every identity is as request r found it.
HashesUntouched(r) ==
    \A i \in Ids : profiles[i].hashedRefreshToken = r.before[i].hashedRefreshToken

\* The request is inside AuthService.refreshTokens, or has returned from it.
InRefreshTokens(r) ==
    \/ r.pc \in {"refresh_find", "refresh_tokens", "refresh_save", "refresh_return"}
    \/ r.tokens # NoTokens
    \/ r.message \in {"User not found", "No refresh token found", "Invalid refresh token"}

\* C13: /auth/refresh calls the refresh operation only for a bearer that
\* verifies under the refresh secret and whose subject is the id of the
\* query; when the id differs the answer is 401 'Invalid user', nothing is
\* issued and no stored hash has changed.
C13_RefreshOnlyForOwnToken ==
    \A s \in Slots :
      LET r == req[s]
      IN  r.route = R_refresh.name
          => /\ InRefreshTokens(r) => (r.rtValid /\ r.bearer.sub = r.id)
             /\ (r.rtValid /\ r.bearer.sub # r.id)
                  => /\ r.pc = "done" /\ r.status = 401 /\ r.message = "Invalid user"
                     /\ r.tokens = NoTokens
                     /\ HashesUntouched(r)

\* A refresh token returned for one identity is presented with the id of
\* the other and is answered 401.
C13_Witness ==
    \E s \in Slots :
      /\ req[s].route = R_refresh.name
      /\ req[s].bearer \in clientTokens
      /\ req[s].rtValid
      /\ req[s].bearer.sub # req[s].id
      /\ profiles[req[s].id].hashedRefreshToken # Null
      /\ req[s].status = 401

\* C14: independent trust boundaries. A token issued as an access token is
\* never accepted by the refresh-token check of /auth/refresh, and a token
\* issued as a refresh token never authenticates on a route that is not
\* public: each is answered 401.
C14_IndependentTrustBoundaries ==
    \A s \in Slots :
      LET r == req[s]
      IN  r.route # ""
          => /\ (r.bearer.typ = AccessSecret /\ r.route = R_refresh.name)
                  => /\ ~r.handler /\ ~InRefreshTokens(r)
                     /\ r.pc = "done" /\ r.status = 401
             /\ (r.bearer.typ = RefreshSecret /\ ~RouteOf(r).isPublic)
                  => /\ ~r.handler /\ ~Authenticated(r)
                     /\ r.pc = "done" /\ r.status = 401

\* An unexpired refresh token presented on a protected route, or an unexpired
\* access token presented on /auth/refresh with its own id, was answered 401.
C14_Witness ==
    \E s \in Slots :
      /\ req[s].route # ""
      /\ req[s].bearer \in clientTokens
      /\ req[s].status = 401
      /\ \/ req[s].rtValid /\ ~RouteOf(req[s]).isPublic
         \/ req[s].atValid /\ req[s].route = R_refresh.name /\ req[s].bearer.sub = req[s].id

\* C15: signOut is idempotent. For an identity that exists every signOut,
\* the second of two in a row included, succeeds and leaves the stored hash
\* null; for an id that matches no identity it fails with not-found and the
\* table is as the request found it.
C15_SignOutIdempotent ==
    \A s \in Slots :
      LET r == req[s]
      IN  (r.route = R_signout.name /\ r.handler /\ r.pc = "done")
          => /\ r.before[r.id].exists
                  => /\ r.status = 200
                     /\ profiles[r.id].hashedRefreshToken = Null
             /\ ~r.before[r.id].exists
                  => /\ r.status = 404 /\ r.message = "User not found"
                     /\ profiles = r.before

\* The second signOut in a row of an identity has succeeded.
C15_Witness ==
    \E s \in Slots :
      /\ req[s].route = R_signout.name
      /\ req[s].afterSignOut
      /\ req[s].before[req[s].id].exists
      /\ req[s].before[req[s].id].hashedRefreshToken = Null
      /\ req[s].pc = "done"
      /\ req[s].status = 200

\* C16: a refresh for an identity that does not exist, or whose stored hash
\* is null, fails with not-found; one whose token does not match the stored
\* hash fails with the invalid-token error; in each case no tokens are
\* issued and the stored hashes are as the request found them.
C16_RefreshFailures ==
    \A s \in Slots :
      LET r == req[s]
          row == r.before[r.id]
          failure == IF ~row.exists THEN "User not found"
                     ELSE IF row.hashedRefreshToken = Null THEN "No refresh token found"
                     ELSE IF JwtFirst72(r.bearer) # The(row.hashedRefreshToken).data
                          THEN "Invalid refresh token"
                          ELSE ""
      IN  (r.route = R_refresh.name /\ InRefreshTokens(r) /\ failure # "")
          => /\ r.tokens = NoTokens
             /\ HashesUntouched(r)
             /\ r.pc \notin {"refresh_save", "refresh_return"}
             /\ r.pc = "done" => (r.status = 404 /\ r.message = failure)

\* A refresh token that a response returned, and that no longer matches the
\* stored hash of its identity, was answered with the invalid-token error.
C16_Witness ==
    \E s \in Slots :
      /\ req[s].route = R_refresh.name
      /\ req[s].bearer \in clientTokens
      /\ req[s].before[req[s].id].hashedRefreshToken # Null
      /\ req[s].pc = "done"
      /\ req[s].message = "Invalid refresh token"

\* C17: on a route whose requiredRoles metadata is unset or the empty set,
\* the RolesGuard allows every authenticated identity, whatever its stored
\* role, and the request reaches the handler.
C17_NoRequiredRolesAllows ==
    \A s \in Slots :
      LET r == req[s]
      IN  (/\ r.route # ""
           /\ Authenticated(r)
           /\ Uses(RouteOf(r), "RolesGuard")
           /\ (~RouteOf(r).roles.set \/ RouteOf(r).roles.roles = {}))
          => /\ Outcome(r, "RolesGuard") = "Allow"
             /\ r.handler

\* C18: the public tag bypasses authentication and authorization. A request
\* with no credentials to a route tagged public reaches the handler, also
\* when the route declares required roles and the RolesGuard is applied.
C18_PublicBypassesBoth ==
    \A s \in Slots :
      LET r == req[s]
      IN  (/\ r.route # ""
           /\ RouteOf(r).isPublic
           /\ Uses(RouteOf(r), "RolesGuard")
           /\ r.bearer = NoToken)
          => /\ r.handler
             /\ \A k \in 1..Len(r.trace) : ~Failed(r.trace[k].outcome)

\* The routes of the session service.
SessionRoutes == {R_signin.name, R_signout.name, R_refresh.name}

\* C19: the stored refresh-token hash is written by signIn, signOut and
\* refresh only: a request to any other route leaves the hash of every
\* identity that still exists as it found it.
C19_OnlySessionServiceWritesHash ==
    \A s \in Slots :
      LET r == req[s]
      IN  (r.route # "" /\ r.route \notin SessionRoutes)
          => \A i \in Ids :
               profiles[i].exists
               => profiles[i].hashedRefreshToken = r.before[i].hashedRefreshToken

\* The request was authenticated as an identity whose stored role was ADMIN.
ByAdmin(r) == Authenticated(r) /\ r.subRow.exists /\ r.subRow.role = "admin"

\* C20: the stored role is changed by administrative requests only: after a
\* request with no credentials, or authenticated as an identity whose stored
\* role is not ADMIN, every identity has the role the request found.
C20_OnlyAdminChangesRole ==
    \A s \in Slots :
      LET r == req[s]
      IN  (r.route # "" /\ ~ByAdmin(r))
          => \A i \in Ids : profiles[i].exists => profiles[i].role = r.before[i].role

\* C21: the profile update is ownership-validated. A PATCH /profiles/:id
\* authenticated as an identity whose stored role is not ADMIN leaves the
\* profile of :id as it found it unless :id is the caller's own id.
C21_UpdateOwnProfileOnly ==
    \A s \in Slots :
      LET r == req[s]
      IN  (/\ r.route = R_profilesUpdate.name
           /\ Authenticated(r)
           /\ ~ByAdmin(r)
           /\ r.id # r.user.sub)
          => profiles[r.id] = r.before[r.id]

\* C22: email is unique across the identity records in every reachable
\* state, so the lookup of signIn by email matches at most one identity.
C22_EmailUnique ==
    /\ \A i \in Ids, j \in Ids :
         (i # j /\ profiles[i].exists /\ profiles[j].exists)
         => profiles[i].email # profiles[j].email
    /\ \A email \in SignInEmails : Cardinality(FindByEmail(email)) <= 1

\* C23: every identity with a valid access token, whatever its stored role
\* among STUDENT, FACULTY, ADMIN and GUEST, is allowed by the gates on
\* GET /courses, GET /courses/:id, GET /departments and GET /departments/:id.
C23_EveryRoleViewsCoursesAndDepartments ==
    \A s \in Slots :
      LET r == req[s]
      IN  (/\ r.route \in {route.name : route \in ViewRoutes}
           /\ r.atValid
           /\ r.subRow.exists
           /\ r.subRow.role \in Role)
          => /\ r.handler
             /\ r.pc = "done" /\ r.status = 200

\* C24: after signOut(id) has completed, and until the next successful signIn
\* of id, the stored refresh-token hash of id stays null (so every refresh
\* for id fails), also when a refresh for id had read the stored hash before
\* the signOut ran.
C24_SignedOutStaysSignedOut ==
    \A i \in signedOut :
      profiles[i].exists => profiles[i].hashedRefreshToken = Null

\* C25: GET /auth/signout/:id clears the stored refresh-token hash of the
\* identity named by the path id whatever the subject of the access token
\* that authenticated the request: for every authenticated sign-out of a
\* stored identity the answer is 200 and the hash of :id is null.
C25_SignOutOfAnyIdentity ==
    \A s \in Slots :
      LET r == req[s]
      IN  (/\ r.route = R_signout.name
           /\ r.pc = "done"
           /\ Authenticated(r)
           /\ r.before[r.id].exists)
          => /\ r.status = 200
             /\ profiles[r.id].hashedRefreshToken = Null

\* Identity A, holding only its own access token, has ended the live session
\* of another identity B.
C25_Witness ==
    \E s \in Slots :
      LET r == req[s]
      IN  /\ r.route = R_signout.name
          /\ r.pc = "done"
          /\ Authenticated(r)
          /\ r.user.sub # r.id
          /\ r.before[r.id].hashedRefreshToken # Null
          /\ r.status = 200
          /\ profiles[r.id].hashedRefreshToken = Null

C27_FailedSignInChangesNothing ==
    \A s \in Slots :
      LET r == req[s]
      IN  (/\ r.route = R_signin.name
           /\ r.pc = "done"
           /\ r.status # 200)
          => \A i \in Ids : profiles[i] = r.before[i]

\* A sign-in with a wrong password for an identity that has a live session
\* has failed.
C27_Witness ==
    \E s \in Slots :
      LET r == req[s]
      IN  /\ r.route = R_signin.name
          /\ r.pc = "done"
          /\ r.message = "Invalid credentials"
          /\ r.found.id \in Ids
          /\ r.before[r.found.id].hashedRefreshToken # Null
          /\ profiles[r.found.id].hashedRefreshToken # Null

\* C28: signIn and refresh return a token pair only after the hash of the
\* returned refresh token has been written to the store: a request of either
\* that has returned tokens, or is about to, has had its hash written, and a
\* request whose write was rejected has returned none.
C28_TokensOnlyAfterHashWrite ==
    \A s \in Slots :
      LET r == req[s]
      IN  /\ (/\ r.route \in {R_signin.name, R_refresh.name}
              /\ \/ r.pc \in {"signIn_return", "refresh_return"}
                 \/ r.pc = "done" /\ r.status = 200)
             => r.saved
          /\ (r.pc = "done" /\ r.status = 500) => ~r.saved

\* The identity a request of the session service is for: the one signIn found
\* by email, the one the id parameter of signout and refresh names.
SessionTarget(r) == IF r.route = R_signin.name THEN r.found.id ELSE r.id

\* C29: frame of the session operations. signIn, signOut and refresh for
\* identity i change at most the refresh-token hash of i: email, password hash
\* and role of i, and every field of every other identity, are after the
\* request what they were before it.
C29_SessionFrame ==
    \A s \in Slots :
      LET r == req[s]
      IN  r.route \in SessionRoutes
          => \A j \in Ids :
               IF j = SessionTarget(r)
               THEN profiles[j] = [r.before[j] EXCEPT
                                     !.hashedRefreshToken = profiles[j].hashedRefreshToken]
               ELSE profiles[j] = r.before[j]

\* A session operation has changed the refresh-token hash of its identity.
C29_Witness ==
    \E s \in Slots :
      LET r == req[s]
      IN  /\ r.route \in SessionRoutes
          /\ r.pc = "done" /\ r.status = 200
          /\ SessionTarget(r) \in Ids
          /\ profiles[SessionTarget(r)].hashedRefreshToken
               # r.before[SessionTarget(r)].hashedRefreshToken
          /\ \E j \in Ids : j # SessionTarget(r) /\ profiles[j].exists

\* The row the last call was about, as stored now.
Called == IF call.op = "updateStudentCourses" THEN students[call.id] ELSE lecturers[call.id]

\* The set of ids in a list.
IdsOf(courseIds) == {courseIds[k] : k \in 1..Len(courseIds)}

\* C30: updateStudentCourses and updateLecturerCourses succeed iff the
\* student / lecturer exists and every id of courseIds names a stored course;
\* on success the stored course set is exactly the set of ids in courseIds,
\* for every list, one that repeats an id and the empty one included; on
\* failure the stored course set is unchanged.
C30_UpdateCoursesReplacesSet ==
    call.op # ""
    => /\ call.status = 200 <=> (call.before.exists /\ IdsOf(call.courseIds) \subseteq courseTable)
       /\ call.status = 200 => Called.courses = IdsOf(call.courseIds)
       /\ call.status # 200 => Called = call.before

====
